---- MODULE Spec2Model ----
(***************************************************************************)
(* DeScribe ingestion core: the transcript pipeline                        *)
(* (calculateProsodyMetrics, groupSegmentsByProsody) and the document      *)
(* chunker (chunkText with splitIntoParagraphs, splitIntoSentences and     *)
(* getOverlapText).                                                        *)
(*                                                                         *)
(* Strings are sequences of one-character strings.  Numbers the code       *)
(* rounds to two decimals (relativeSpeed, emphasisScore, avgEmphasis,      *)
(* avgSpeed) are kept as integers counting hundredths: 100 stands for 1.0. *)
(* The quotients are exact rationals, so Math.round is applied to the      *)
(* exact value rather than to its nearest double.                          *)
(***************************************************************************)
EXTENDS Integers, Sequences, FiniteSets, TLC

VARIABLES
  \* transcript pipeline
  segments,          \* TranscriptSegment[] handed to calculateProsodyMetrics
  groupOptions,      \* options of groupSegmentsByProsody
  enriched,          \* EnrichedSegment[] returned by calculateProsodyMetrics
  averageWpm,        \* averageWpm returned by calculateProsodyMetrics
  segPos,            \* 1-based position of the for-of loop over the segments
  segCurrentChunk,   \* currentChunk of groupSegmentsByProsody
  currentWordCount,
  currentDuration,
  segChunks,         \* chunks of groupSegmentsByProsody
  tpc,               \* "idle" | "prosody" | "called" | "group" | "done"
  \* document chunker (chunkText)
  docText,           \* the text argument of chunkText
  chunkOptions,      \* opts: the options merged over DEFAULT_OPTIONS
  paragraphs,        \* splitIntoParagraphs(normalized)
  paraPos,           \* 1-based position of the loop over the paragraphs
  sentences,         \* splitIntoSentences(para.text) of an oversized paragraph
  sentPos,           \* 1-based position of the loop over the sentences
  sentenceChunk,
  sentenceStart,
  currentChunk,
  currentStartChar,
  chunkIndex,
  chunks,
  dpc,               \* "idle" | "start" | "para" | "sent" | "done"
  \* YouTube ingestion (processYouTubeUrl)
  url,               \* "valid" | "invalid": whether extractVideoId finds an id
  ingestOptions,     \* [skipAudio, keepAudio]
  rawSegments,       \* the cues fetchTranscriptDirect delivers for the video
  transcript,        \* what fetchYouTubeTranscript resolves to
  audioFile,         \* the file audioDir/videoId.wav exists on disk
  audioResult,       \* "none" | "ok": downloadAudio has resolved
  audioPath,         \* "undefined" | "path"
  acousticFeatures,  \* "undefined" | "features"
  cleanupCalls,      \* number of cleanupAudio calls on the downloaded file
  records,           \* the ChunkRecord[] built from the chunks
  returned,          \* "pending" | "null" | "records": what the call returned
  ipc,               \* position in processYouTubeUrl
  \* VectorStore
  db,                \* this.db: "null" | "connection"
  table,             \* this.table: "null" | "table"
  tableExists,       \* the collection is among db.tableNames() of the directory
  rows,              \* ids of the rows of the collection, in insertion order
  lastCall,          \* the last method call: its name, argument, error, value
  connectedSince,    \* history: connect has resolved with no close since
  initSince          \* history: initTable has resolved with no close since

tvars == <<segments, groupOptions, enriched, averageWpm, segPos,
           segCurrentChunk, currentWordCount, currentDuration, segChunks, tpc>>

dvars == <<docText, chunkOptions, paragraphs, paraPos, sentences, sentPos,
           sentenceChunk, sentenceStart, currentChunk, currentStartChar,
           chunkIndex, chunks, dpc>>

ivars == <<url, ingestOptions, rawSegments, transcript, audioFile, audioResult,
           audioPath, acousticFeatures, cleanupCalls, records, returned, ipc>>

svars == <<db, table, tableExists, rows, lastCall, connectedSince, initSince>>

vars == <<tvars, dvars, ivars, svars>>

----------------------------------------------------------------------------
(* Characters and the string helpers of the JavaScript runtime             *)

\* White space that leaves out the tab.
WhiteSpace_noTab == {" ", "\n", "\r"}

WhiteSpace == {" ", "\n", "\t", "\r"}

IsSpace(c) == c \in WhiteSpace

Max(a, b) == IF a >= b THEN a ELSE b

\* The numbers of the pipeline are non-negative; NonFinite stands for the
\* results a division by zero produces (Infinity, NaN), which every later
\* operation of the code hands on.
NonFinite == -1

\* Math.round of the non-negative rational n/d: halves round up, and a
\* quotient with divisor 0 stays non-finite.
Round(n, d) == IF d = 0 THEN NonFinite ELSE (2 * n + d) \div (2 * d)

RECURSIVE SumSeq(_)
SumSeq(s) == IF s = <<>> THEN 0 ELSE Head(s) + SumSeq(Tail(s))

\* reduce((sum, s) => sum + s..., 0) / length, rounded: a non-finite summand
\* makes the sum, and so the mean, non-finite.
RoundedMean(s) ==
  IF \E i \in 1..Len(s) : s[i] = NonFinite THEN NonFinite
  ELSE Round(SumSeq(s), Len(s))

\* Array.prototype.join with a separator string.
RECURSIVE Join(_, _)
Join(parts, sep) ==
  IF parts = <<>> THEN <<>>
  ELSE IF Len(parts) = 1 THEN parts[1]
  ELSE parts[1] \o sep \o Join(Tail(parts), sep)

\* String.prototype.trim.
RECURSIVE TrimLeft(_)
TrimLeft(s) ==
  IF s # <<>> /\ IsSpace(Head(s)) THEN TrimLeft(Tail(s)) ELSE s

RECURSIVE TrimRight(_)
TrimRight(s) ==
  IF s # <<>> /\ IsSpace(s[Len(s)]) THEN TrimRight(SubSeq(s, 1, Len(s) - 1)) ELSE s

Trim(s) == TrimRight(TrimLeft(s))

\* String.prototype.split(/\s+/): the pieces between the maximal whitespace
\* runs; a leading or trailing run leaves an empty piece.
RECURSIVE SplitWsFrom(_, _, _, _)
SplitWsFrom(s, i, cur, acc) ==
  IF i > Len(s) THEN Append(acc, cur)
  ELSE IF IsSpace(s[i])
       THEN IF i > 1 /\ IsSpace(s[i - 1])
            THEN SplitWsFrom(s, i + 1, cur, acc)
            ELSE SplitWsFrom(s, i + 1, <<>>, Append(acc, cur))
       ELSE SplitWsFrom(s, i + 1, Append(cur, s[i]), acc)

SplitWs(s) == SplitWsFrom(s, 1, <<>>, <<>>)

\* text.trim().split(/\s+/).filter(w => w.length > 0).length
wordCount(text) ==
  Len(SelectSeq(SplitWs(Trim(text)), LAMBDA w : Len(w) > 0))

----------------------------------------------------------------------------
(* Exact rationals for the quotients of calculateProsodyMetrics            *)

RECURSIVE GCD(_, _)
GCD(a, b) == IF b = 0 THEN a ELSE GCD(b, a % b)

\* The quotient n/d in lowest terms; a divisor of 0 is kept as it is.
Rat(n, d) ==
  IF d = 0 THEN [n |-> n, d |-> 0]
  ELSE LET g == GCD(n, d) IN [n |-> n \div g, d |-> d \div g]

RatDiv(a, b) == Rat(a.n * b.d, a.d * b.n)

\* Math.round(r * 100) / 100, counted in hundredths.
RoundHundredths(r) == Round(100 * r.n, r.d)

----------------------------------------------------------------------------
(* calculateProsodyMetrics                                                 *)

\* pauseBefore without the clamp at 0.
pauseBeforeOf_unclamped(segs, index) ==
  IF index > 1
  THEN segs[index].offset - (segs[index - 1].offset + segs[index - 1].duration)
  ELSE 0

\* pauseBefore of segmentStats: the clamped gap to the previous segment's end.
pauseBeforeOf(segs, index) ==
  IF index > 1
  THEN LET prevEnd == segs[index - 1].offset + segs[index - 1].duration
       IN  Max(0, segs[index].offset - prevEnd)
  ELSE 0

\* stats.wpm without the durationMinutes > 0 guard.
wpmOf_unguarded(seg) == Rat(wordCount(seg.text) * 60000, seg.duration)

\* stats.wpm: wordCount / durationMinutes, or 0 for a zero duration.
wpmOf(seg) ==
  IF seg.duration > 0 THEN Rat(wordCount(seg.text) * 60000, seg.duration)
                      ELSE Rat(0, 1)

totalWordsOf(segs) == SumSeq([i \in 1..Len(segs) |-> wordCount(segs[i].text)])

totalDurationOf(segs) == SumSeq([i \in 1..Len(segs) |-> segs[i].duration])

\* averageWpm before rounding.
averageWpmOf(segs) ==
  IF totalDurationOf(segs) > 0
  THEN Rat(totalWordsOf(segs) * 60000, totalDurationOf(segs))
  ELSE Rat(0, 1)

relativeSpeedOf(segs, index) ==
  LET avg == averageWpmOf(segs)
  IN  IF avg.n > 0 THEN RatDiv(wpmOf(segs[index]), avg) ELSE Rat(1, 1)

emphasisScoreOf(segs, index) ==
  LET seg == segs[index]
      wc == wordCount(seg.text)
      totalWords == totalWordsOf(segs)
      avgDurationPerWord == IF wc > 0 THEN Rat(seg.duration, wc) ELSE Rat(0, 1)
      avgDurationPerWordOverall ==
        IF totalWords > 0 THEN Rat(totalDurationOf(segs), totalWords) ELSE Rat(1, 1)
  IN  IF avgDurationPerWordOverall.n > 0
      THEN RatDiv(avgDurationPerWord, avgDurationPerWordOverall)
      ELSE Rat(1, 1)

\* An element of `enriched` numbered from 1.
enrichSegment_oneBasedIndex(segs, index) ==
  [text |-> segs[index].text,
   offset |-> segs[index].offset,
   duration |-> segs[index].duration,
   segmentIndex |-> index,
   prosody |->
     [wordsPerMinute |-> LET w == wpmOf(segs[index]) IN Round(w.n, w.d),
      pauseBefore |-> pauseBeforeOf(segs, index),
      relativeSpeed |-> RoundHundredths(relativeSpeedOf(segs, index)),
      emphasisScore |-> RoundHundredths(emphasisScoreOf(segs, index))]]

\* One element of `enriched`; segmentIndex is the 0-based array index.
enrichSegment(segs, index) ==
  [text |-> segs[index].text,
   offset |-> segs[index].offset,
   duration |-> segs[index].duration,
   segmentIndex |-> index - 1,
   prosody |->
     [wordsPerMinute |-> LET w == wpmOf(segs[index]) IN Round(w.n, w.d),
      pauseBefore |-> pauseBeforeOf(segs, index),
      relativeSpeed |-> RoundHundredths(relativeSpeedOf(segs, index)),
      emphasisScore |-> RoundHundredths(emphasisScoreOf(segs, index))]]

calculateProsodyMetrics(segs) ==
  IF Len(segs) = 0
  THEN [enriched |-> <<>>, averageWpm |-> 0]
  ELSE [enriched |-> [i \in 1..Len(segs) |-> enrichSegment(segs, i)],
        averageWpm |-> LET a == averageWpmOf(segs) IN Round(a.n, a.d)]

----------------------------------------------------------------------------
(* groupSegmentsByProsody                                                  *)

\* buildChunk with significantPauses counted from the second segment on.
buildChunk_pausesAfterFirst(cur, opts) ==
  LET n == Len(cur)
  IN  [text |-> Join([i \in 1..n |-> cur[i].text], <<" ">>),
       startTime |-> cur[1].offset,
       endTime |-> cur[n].offset + cur[n].duration,
       segmentIndices |-> [i \in 1..n |-> cur[i].segmentIndex],
       avgEmphasis |-> RoundedMean([i \in 1..n |-> cur[i].prosody.emphasisScore]),
       avgSpeed |-> RoundedMean([i \in 1..n |-> cur[i].prosody.relativeSpeed]),
       significantPauses |->
         Len(SelectSeq(Tail(cur),
                       LAMBDA s : s.prosody.pauseBefore >= opts.pauseThreshold))]

\* buildChunk with endTime taken from the last segment's offset alone.
buildChunk_endAtLastOffset(cur, opts) ==
  LET n == Len(cur)
  IN  [text |-> Join([i \in 1..n |-> cur[i].text], <<" ">>),
       startTime |-> cur[1].offset,
       endTime |-> cur[n].offset,
       segmentIndices |-> [i \in 1..n |-> cur[i].segmentIndex],
       avgEmphasis |-> RoundedMean([i \in 1..n |-> cur[i].prosody.emphasisScore]),
       avgSpeed |-> RoundedMean([i \in 1..n |-> cur[i].prosody.relativeSpeed]),
       significantPauses |->
         Len(SelectSeq(cur, LAMBDA s : s.prosody.pauseBefore >= opts.pauseThreshold))]

\* The ChunkWithAnalysis that finalizeChunk builds from a non-empty open
\* chunk.  sentiment and sentimentScore come from the external lexicon
\* (analyzeSentiment) and are left out.
buildChunk(cur, opts) ==
  LET lastSeg == cur[Len(cur)]
      n == Len(cur)
  IN  [text |-> Join([i \in 1..n |-> cur[i].text], <<" ">>),
       startTime |-> cur[1].offset,
       endTime |-> lastSeg.offset + lastSeg.duration,
       segmentIndices |-> [i \in 1..n |-> cur[i].segmentIndex],
       avgEmphasis |-> RoundedMean([i \in 1..n |-> cur[i].prosody.emphasisScore]),
       avgSpeed |-> RoundedMean([i \in 1..n |-> cur[i].prosody.relativeSpeed]),
       significantPauses |->
         Len(SelectSeq(cur, LAMBDA s : s.prosody.pauseBefore >= opts.pauseThreshold))]

\* finalizeChunk without the emptiness guard: an empty open chunk is pushed
\* as a chunk of no segments.
finalizeChunk_pushesEmpty(chs, cur, opts) ==
  IF Len(cur) = 0
  THEN Append(chs, [text |-> <<>>, startTime |-> 0, endTime |-> 0,
                    segmentIndices |-> <<>>, avgEmphasis |-> 0, avgSpeed |-> 0,
                    significantPauses |-> 0])
  ELSE Append(chs, buildChunk(cur, opts))

\* finalizeChunk with the emptiness guard off by one: an open chunk of a
\* single segment is thrown away.
finalizeChunk_dropsSingle(chs, cur, opts) ==
  IF Len(cur) <= 1 THEN chs ELSE Append(chs, buildChunk(cur, opts))

\* finalizeChunk: the chunks array after the call (the open chunk and the
\* running counters are reset by the actions that call it).
finalizeChunk(chs, cur, opts) ==
  IF Len(cur) = 0 THEN chs ELSE Append(chs, buildChunk(cur, opts))

\* The duration test on the arriving segment alone.
wouldExceedDuration_segmentOnly(curDuration, seg, opts) ==
  seg.duration > opts.maxChunkDuration

wouldExceedDuration(curDuration, seg, opts) ==
  curDuration + seg.duration > opts.maxChunkDuration

\* The word cap at twice the target.
wouldExceedWords_atTwice(curWords, seg, opts) ==
  curWords + wordCount(seg.text) > 2 * opts.targetWordCount

\* currentWordCount + wordCount > targetWordCount * 1.5
wouldExceedWords(curWords, seg, opts) ==
  2 * (curWords + wordCount(seg.text)) > 3 * opts.targetWordCount

\* naturalBreak without the word floor being inclusive.
naturalBreak_strictFloor(curWords, seg, opts) ==
  /\ seg.prosody.pauseBefore >= opts.pauseThreshold
  /\ 2 * curWords > opts.targetWordCount

\* hasSignificantPause && currentWordCount >= targetWordCount * 0.5
naturalBreak(curWords, seg, opts) ==
  /\ seg.prosody.pauseBefore >= opts.pauseThreshold
  /\ 2 * curWords >= opts.targetWordCount

\* The break test with the word floor of the pause break left out.
shouldFinalize_anyPause(cur, curWords, curDuration, seg, opts) ==
  /\ Len(cur) > 0
  /\ \/ wouldExceedDuration(curDuration, seg, opts)
     \/ wouldExceedWords(curWords, seg, opts)
     \/ seg.prosody.pauseBefore >= opts.pauseThreshold

\* The break test with the duration cap alone.
shouldFinalize_durationOnly(cur, curWords, curDuration, seg, opts) ==
  /\ Len(cur) > 0
  /\ wouldExceedDuration(curDuration, seg, opts)

shouldFinalize(cur, curWords, curDuration, seg, opts) ==
  /\ Len(cur) > 0
  /\ \/ wouldExceedDuration(curDuration, seg, opts)
     \/ wouldExceedWords(curWords, seg, opts)
     \/ naturalBreak(curWords, seg, opts)

----------------------------------------------------------------------------
(* Inputs of the transcript pipeline                                       *)

MaxSegs == 3

\* Caption texts with no word and with one word.
SegTexts == {<<" ">>, <<"a">>}

Offsets == {0, 1, 3}

Durations == {0, 1, 2}

Segment == [text : SegTexts, offset : Offsets, duration : Durations]

\* The transcript source delivers the cues ordered by start time; cues may
\* overlap, touch or leave a gap.
TimeOrdered(segs) ==
  \A i \in 1..(Len(segs) - 1) : segs[i].offset <= segs[i + 1].offset

\* Two cues with a pause of three seconds between them, grouped with a
\* pauseThreshold of one second, a targetWordCount of 1 and the default
\* maxChunkDuration.
ExampleSegments ==
  << [text |-> <<"H", "e", "l", "l", "o", " ", "w", "o", "r", "l", "d">>,
      offset |-> 0, duration |-> 2000],
     [text |-> <<"G", "o", "o", "d", "b", "y", "e">>,
      offset |-> 5000, duration |-> 1000] >>

ExampleGroupOptions ==
  [maxChunkDuration |-> 60000, pauseThreshold |-> 1000, targetWordCount |-> 1]

SegmentSeqs ==
  {s \in UNION {[1..n -> Segment] : n \in 0..MaxSegs} : TimeOrdered(s)}
    \cup {ExampleSegments}

GroupOptionSets ==
  [maxChunkDuration : {1, 3}, pauseThreshold : {1, 2}, targetWordCount : {1, 2}]
    \cup {ExampleGroupOptions}

NoOptions == [maxChunkDuration |-> 0, pauseThreshold |-> 0, targetWordCount |-> 0]

\* The outcome of a method call: error is "none" when the call resolves.
Call(op, arg, error, value) ==
  [op |-> op, arg |-> arg, error |-> error, value |-> value]

\* No VectorStore is in use.
StoreIdle ==
  /\ db = "null"
  /\ table = "null"
  /\ tableExists = FALSE
  /\ rows = <<>>
  /\ lastCall = Call("idle", 0, "none", 0)
  /\ connectedSince = FALSE
  /\ initSince = FALSE

NoTranscript == [segments |-> <<>>, averageWpm |-> 0]

\* No processYouTubeUrl call is in progress.
IngestIdle ==
  /\ url = "valid"
  /\ ingestOptions = [skipAudio |-> FALSE, keepAudio |-> FALSE]
  /\ rawSegments = <<>>
  /\ transcript = NoTranscript
  /\ audioFile = FALSE
  /\ audioResult = "none"
  /\ audioPath = "undefined"
  /\ acousticFeatures = "undefined"
  /\ cleanupCalls = 0
  /\ records = <<>>
  /\ returned = "pending"
  /\ ipc = "idle"

----------------------------------------------------------------------------
(* The transcript pipeline as a state machine                              *)

\* No chunkText call is in progress.
DocIdle ==
  /\ docText = <<>>
  /\ chunkOptions = [targetSize |-> 0, minSize |-> 0, maxSize |-> 0, overlap |-> 0]
  /\ paragraphs = <<>>
  /\ paraPos = 1
  /\ sentences = <<>>
  /\ sentPos = 1
  /\ sentenceChunk = <<>>
  /\ sentenceStart = 0
  /\ currentChunk = <<>>
  /\ currentStartChar = 0
  /\ chunkIndex = 0
  /\ chunks = <<>>
  /\ dpc = "idle"

TInit ==
  /\ DocIdle
  /\ IngestIdle
  /\ StoreIdle
  /\ segments \in SegmentSeqs
  /\ groupOptions = NoOptions
  /\ enriched = <<>>
  /\ averageWpm = 0
  /\ segPos = 1
  /\ segCurrentChunk = <<>>
  /\ currentWordCount = 0
  /\ currentDuration = 0
  /\ segChunks = <<>>
  /\ tpc = "prosody"

\* fetchYouTubeTranscript's call of calculateProsodyMetrics.
CalculateProsody ==
  /\ tpc = "prosody"
  /\ LET r == calculateProsodyMetrics(segments)
     IN  /\ enriched' = r.enriched
         /\ averageWpm' = r.averageWpm
  /\ tpc' = "called"
  /\ UNCHANGED <<segments, groupOptions, segPos, segCurrentChunk,
                 currentWordCount, currentDuration, segChunks>>
  /\ UNCHANGED <<dvars, ivars, svars>>

\* Entry of groupSegmentsByProsody(enriched, options).
GroupBegin ==
  /\ tpc = "called"
  /\ \E o \in GroupOptionSets : groupOptions' = o
  /\ segPos' = 1
  /\ segCurrentChunk' = <<>>
  /\ currentWordCount' = 0
  /\ currentDuration' = 0
  /\ segChunks' = <<>>
  /\ tpc' = "group"
  /\ UNCHANGED <<segments, enriched, averageWpm>>
  /\ UNCHANGED <<dvars, ivars, svars>>

\* One iteration of the for-of loop.
GroupStep ==
  /\ tpc = "group"
  /\ segPos <= Len(enriched)
  /\ LET segment == enriched[segPos]
         wc == wordCount(segment.text)
         brk == shouldFinalize(segCurrentChunk, currentWordCount,
                               currentDuration, segment, groupOptions)
     IN  /\ segChunks' =
               IF brk THEN finalizeChunk(segChunks, segCurrentChunk, groupOptions)
                      ELSE segChunks
         /\ segCurrentChunk' =
               IF brk THEN <<segment>> ELSE Append(segCurrentChunk, segment)
         /\ currentWordCount' = (IF brk THEN 0 ELSE currentWordCount) + wc
         /\ currentDuration' = (IF brk THEN 0 ELSE currentDuration) + segment.duration
  /\ segPos' = segPos + 1
  /\ UNCHANGED <<segments, groupOptions, enriched, averageWpm, tpc>>
  /\ UNCHANGED <<dvars, ivars, svars>>

\* The final finalizeChunk() and the return.
GroupEnd ==
  /\ tpc = "group"
  /\ segPos > Len(enriched)
  /\ segChunks' = finalizeChunk(segChunks, segCurrentChunk, groupOptions)
  /\ segCurrentChunk' = <<>>
  /\ currentWordCount' = 0
  /\ currentDuration' = 0
  /\ tpc' = "done"
  /\ UNCHANGED <<segments, groupOptions, enriched, averageWpm, segPos>>
  /\ UNCHANGED <<dvars, ivars, svars>>

TNext == CalculateProsody \/ GroupBegin \/ GroupStep \/ GroupEnd

TranscriptSpec == TInit /\ [][TNext]_vars

----------------------------------------------------------------------------
(* Document chunker: string helpers                                        *)

Terminals == {".", "!", "?"}

IsTerminal(c) == c \in Terminals

\* text.replace(/\r\n/g, "\n").replace(/\r/g, "\n")
RECURSIVE ReplaceCrLf(_)
ReplaceCrLf(s) ==
  IF s = <<>> THEN <<>>
  ELSE IF Len(s) >= 2 /\ s[1] = "\r" /\ s[2] = "\n"
       THEN <<"\n">> \o ReplaceCrLf(SubSeq(s, 3, Len(s)))
       ELSE <<s[1]>> \o ReplaceCrLf(Tail(s))

\* The normalisation without the second replace: a lone CR is left in place.
normalize_crlfOnly(text) == ReplaceCrLf(text)

ReplaceCr(s) == [i \in 1..Len(s) |-> IF s[i] = "\r" THEN "\n" ELSE s[i]]

normalize(text) == ReplaceCr(ReplaceCrLf(text))

\* The last position of the maximal whitespace run that starts at i
\* (i - 1 when s[i] is no whitespace or i is past the end).
RECURSIVE WsRunEnd(_, _)
WsRunEnd(s, i) ==
  IF i <= Len(s) /\ IsSpace(s[i]) THEN WsRunEnd(s, i + 1) ELSE i - 1

\* The last newline among s[lo..hi], 0 when there is none.
LastNewlineIn(s, lo, hi) ==
  LET ks == {k \in lo..hi : s[k] = "\n"}
  IN  IF ks = {} THEN 0 ELSE CHOOSE k \in ks : \A m \in ks : m <= k

\* text.split(/\n\s*\n/): a separator runs from a newline to the last newline
\* of the whitespace run that follows it.
RECURSIVE SplitBlankLinesFrom(_, _, _, _)
SplitBlankLinesFrom(s, i, start, acc) ==
  IF i > Len(s) THEN Append(acc, SubSeq(s, start, Len(s)))
  ELSE IF s[i] = "\n"
       THEN LET k == LastNewlineIn(s, i + 1, WsRunEnd(s, i + 1))
            IN  IF k > 0
                THEN SplitBlankLinesFrom(s, k + 1, k + 1,
                                         Append(acc, SubSeq(s, start, i - 1)))
                ELSE SplitBlankLinesFrom(s, i + 1, start, acc)
       ELSE SplitBlankLinesFrom(s, i + 1, start, acc)

SplitBlankLines(s) == SplitBlankLinesFrom(s, 1, 1, <<>>)

\* text.indexOf(part, from) for a non-empty part: 0-based, -1 when absent.
indexOf(text, part, from) ==
  LET hits == {q \in Max(from, 0)..(Len(text) - Len(part)) :
                 SubSeq(text, q + 1, q + Len(part)) = part}
  IN  IF hits = {} THEN -1 ELSE CHOOSE q \in hits : \A r \in hits : q <= r

\* text.slice(-n): the last n characters; slice(-0) is slice(0), the whole text.
sliceLast(text, n) ==
  IF n = 0 \/ n >= Len(text) THEN text
  ELSE SubSeq(text, Len(text) - n + 1, Len(text))

----------------------------------------------------------------------------
(* splitIntoParagraphs, splitIntoSentences, getOverlapText                 *)

RECURSIVE paragraphsFrom(_, _, _, _)
paragraphsFrom(text, parts, currentPos, acc) ==
  IF parts = <<>> THEN acc
  ELSE LET part == Head(parts)
           trimmed == Trim(part)
           found == indexOf(text, part, currentPos)
           next == IF Len(trimmed) > 0
                   THEN Append(acc, [text |-> trimmed,
                                     startChar |-> IF found >= 0 THEN found
                                                                 ELSE currentPos])
                   ELSE acc
       IN  paragraphsFrom(text, Tail(parts), currentPos + Len(part) + 2, next)

splitIntoParagraphs(text) == paragraphsFrom(text, SplitBlankLines(text), 0, <<>>)

\* text.split(/(?<=[.!?])\s+/): a separator is a whitespace run that directly
\* follows a terminal mark.
RECURSIVE SplitAfterTerminalFrom(_, _, _, _)
SplitAfterTerminalFrom(s, i, start, acc) ==
  IF i > Len(s) THEN Append(acc, SubSeq(s, start, Len(s)))
  ELSE IF IsSpace(s[i]) /\ i > 1 /\ IsTerminal(s[i - 1])
       THEN LET j == WsRunEnd(s, i)
            IN  SplitAfterTerminalFrom(s, j + 1, j + 1,
                                       Append(acc, SubSeq(s, start, i - 1)))
       ELSE SplitAfterTerminalFrom(s, i + 1, start, acc)

splitIntoSentences(text) ==
  SelectSeq(SplitAfterTerminalFrom(text, 1, 1, <<>>), LAMBDA x : Len(Trim(x)) > 0)

\* tail.match(/[.!?]\s+([^.!?]+)$/): the group, or <<>> when nothing matches.
\* Only the last terminal mark of the tail can start the match; the group is
\* what follows the whitespace run after it, or the run's last character when
\* the run reaches the end of the tail.
sentenceMatch(tail) ==
  LET n == Len(tail)
      ps == {q \in 1..n : IsTerminal(tail[q])}
      p == IF ps = {} THEN 0 ELSE CHOOSE q \in ps : \A r \in ps : r <= q
  IN  IF p = 0 \/ n - p < 2 \/ ~IsSpace(tail[p + 1]) THEN <<>>
      ELSE LET j == WsRunEnd(tail, p + 1)
           IN  IF j < n THEN SubSeq(tail, j + 1, n) ELSE SubSeq(tail, n, n)

\* The word-boundary loop: the shortest suffix of whole words, joined by single
\* spaces, that has at least overlapSize characters, else all the words.
RECURSIVE wordSuffix(_, _, _)
wordSuffix(words, i, overlapSize) ==
  LET candidate == Join(SubSeq(words, i, Len(words)), <<" ">>)
  IN  IF Len(candidate) >= overlapSize \/ i = 1 THEN candidate
      ELSE wordSuffix(words, i - 1, overlapSize)

getOverlapText(text, overlapSize) ==
  IF Len(text) <= overlapSize THEN text
  ELSE LET tail == sliceLast(text, overlapSize * 2)
           m == sentenceMatch(tail)
       IN  IF m # <<>> /\ 2 * Len(m) >= overlapSize THEN m
           ELSE LET words == SplitWs(tail)
                    result == wordSuffix(words, Len(words), overlapSize)
                IN  IF result # <<>> THEN result ELSE sliceLast(text, overlapSize)

----------------------------------------------------------------------------
(* chunkText: the steps of the accumulate loop.  st is the record of the   *)
(* locals chunks, chunkIndex, currentChunk and currentStartChar.           *)

mkChunk(txt, index, start, length) ==
  [text |-> txt, chunkIndex |-> index, startChar |-> start, endChar |-> start + length]

\* currentChunk.length > 0 && currentChunk.length + paraWithNewline.length > maxSize
exceedsMax(buffer, piece, opts) ==
  Len(buffer) > 0 /\ Len(buffer) + Len(piece) > opts.maxSize

\* Finalize at the maxSize break: emit the buffer if its trimmed length reaches
\* minSize, then seed the next buffer with the overlap tail.
finalizeAtMax(st, opts) ==
  LET trimmed == Trim(st.currentChunk)
      emit == Len(trimmed) >= opts.minSize
      overlapText == getOverlapText(st.currentChunk, opts.overlap)
  IN  [chunks |-> IF emit
                  THEN Append(st.chunks, mkChunk(trimmed, st.chunkIndex,
                                st.currentStartChar, Len(st.currentChunk)))
                  ELSE st.chunks,
       chunkIndex |-> IF emit THEN st.chunkIndex + 1 ELSE st.chunkIndex,
       currentStartChar |-> st.currentStartChar + Len(st.currentChunk) - Len(overlapText),
       currentChunk |-> overlapText]

\* Before a paragraph longer than maxSize is split: emit the pending buffer if
\* its trimmed length reaches minSize.
finalizePending(st, para, opts) ==
  IF Len(Trim(st.currentChunk)) >= opts.minSize
  THEN [chunks |-> Append(st.chunks, mkChunk(Trim(st.currentChunk), st.chunkIndex,
                            st.currentStartChar, Len(st.currentChunk))),
        chunkIndex |-> st.chunkIndex + 1,
        currentChunk |-> <<>>,
        currentStartChar |-> para.startChar]
  ELSE st

\* appendParagraph without the chunkIndex++ that follows the push.
appendParagraph_noIncrement(st, para, opts) ==
  LET start == IF Len(st.currentChunk) = 0 THEN para.startChar ELSE st.currentStartChar
      buffer == st.currentChunk \o para.text \o <<"\n", "\n">>
  IN  IF Len(buffer) >= opts.targetSize
      THEN [chunks |-> Append(st.chunks,
                              mkChunk(Trim(buffer), st.chunkIndex, start, Len(buffer))),
            chunkIndex |-> st.chunkIndex,
            currentChunk |-> <<>>,
            currentStartChar |-> start]
      ELSE [chunks |-> st.chunks,
            chunkIndex |-> st.chunkIndex,
            currentChunk |-> buffer,
            currentStartChar |-> start]

\* The else branch: add the paragraph and finalize once targetSize is reached.
appendParagraph(st, para, opts) ==
  LET start == IF Len(st.currentChunk) = 0 THEN para.startChar ELSE st.currentStartChar
      buffer == st.currentChunk \o para.text \o <<"\n", "\n">>
  IN  IF Len(buffer) >= opts.targetSize
      THEN [chunks |-> Append(st.chunks,
                              mkChunk(Trim(buffer), st.chunkIndex, start, Len(buffer))),
            chunkIndex |-> st.chunkIndex + 1,
            currentChunk |-> <<>>,
            currentStartChar |-> start]
      ELSE [chunks |-> st.chunks,
            chunkIndex |-> st.chunkIndex,
            currentChunk |-> buffer,
            currentStartChar |-> start]

\* One iteration of the loop over the sentences of an oversized paragraph.
\* sst holds chunks, chunkIndex, sentenceChunk and sentenceStart.
addSentence(sst, sentence, opts) ==
  LET brk == exceedsMax(sst.sentenceChunk, sentence, opts)
      trimmed == Trim(sst.sentenceChunk)
      emit == brk /\ Len(trimmed) >= opts.minSize
      overlapText == getOverlapText(sst.sentenceChunk, opts.overlap)
      start == IF brk THEN sst.sentenceStart + Len(sst.sentenceChunk) - Len(overlapText)
                      ELSE sst.sentenceStart
      buffer == IF brk THEN overlapText ELSE sst.sentenceChunk
  IN  [chunks |-> IF emit
                  THEN Append(sst.chunks, mkChunk(trimmed, sst.chunkIndex,
                                sst.sentenceStart, Len(sst.sentenceChunk)))
                  ELSE sst.chunks,
       chunkIndex |-> IF emit THEN sst.chunkIndex + 1 ELSE sst.chunkIndex,
       sentenceStart |-> start,
       sentenceChunk |-> buffer \o sentence \o <<" ">>]

\* The last chunk without the merge: a remainder is always pushed.
finalizeLast_alwaysPush(st, opts) ==
  IF Len(Trim(st.currentChunk)) = 0 THEN st.chunks
  ELSE Append(st.chunks,
              mkChunk(Trim(st.currentChunk), st.chunkIndex, st.currentStartChar,
                      Len(st.currentChunk)))

\* After the loop: emit the remainder, or merge an undersized remainder into
\* the last chunk.
finalizeLast(st, opts) ==
  LET finalTrimmed == Trim(st.currentChunk)
      n == Len(st.chunks)
      end == st.currentStartChar + Len(st.currentChunk)
  IN  IF Len(finalTrimmed) = 0 THEN st.chunks
      ELSE IF Len(finalTrimmed) < opts.minSize /\ n > 0
           THEN [st.chunks EXCEPT
                   ![n].text = @ \o <<"\n", "\n">> \o finalTrimmed,
                   ![n].endChar = end]
           ELSE Append(st.chunks,
                       mkChunk(finalTrimmed, st.chunkIndex, st.currentStartChar,
                               Len(st.currentChunk)))

\* The part of an iteration that precedes the size test of the paragraph.
beforeParagraph(st, para, opts) ==
  IF exceedsMax(st.currentChunk, para.text \o <<"\n", "\n">>, opts)
  THEN finalizeAtMax(st, opts)
  ELSE st

isOversized(para, opts) == Len(para.text) + 2 > opts.maxSize

RECURSIVE sentenceLoop(_, _, _)
sentenceLoop(sst, sents, opts) ==
  IF sents = <<>> THEN sst
  ELSE sentenceLoop(addSentence(sst, Head(sents), opts), Tail(sents), opts)

\* A whole iteration of the loop over the paragraphs.
paragraphIteration(st, para, opts) ==
  LET s1 == beforeParagraph(st, para, opts)
  IN  IF isOversized(para, opts)
      THEN LET s2 == finalizePending(s1, para, opts)
               r == sentenceLoop([chunks |-> s2.chunks, chunkIndex |-> s2.chunkIndex,
                                  sentenceChunk |-> <<>>, sentenceStart |-> para.startChar],
                                 splitIntoSentences(para.text), opts)
           IN  [chunks |-> r.chunks, chunkIndex |-> r.chunkIndex,
                currentChunk |-> r.sentenceChunk, currentStartChar |-> r.sentenceStart]
      ELSE appendParagraph(s1, para, opts)

RECURSIVE paragraphLoop(_, _, _)
paragraphLoop(st, paras, opts) ==
  IF paras = <<>> THEN st
  ELSE paragraphLoop(paragraphIteration(st, Head(paras), opts), Tail(paras), opts)

\* chunkText as a function of its arguments.
chunkText(txt, opts) ==
  IF Trim(txt) = <<>> THEN <<>>
  ELSE finalizeLast(
         paragraphLoop([chunks |-> <<>>, chunkIndex |-> 0,
                        currentChunk |-> <<>>, currentStartChar |-> 0],
                       splitIntoParagraphs(normalize(txt)), opts),
         opts)

----------------------------------------------------------------------------
(* Inputs of the document chunker                                          *)

MaxTextLen == 5

Chars == {"a", ".", " ", "\n"}

\* Every text of at most MaxTextLen characters.
ShortTexts == UNION {[1..n -> Chars] : n \in 0..MaxTextLen}

MaxParas == 3

Separators == {<<"\n", "\n">>, <<"\n", "\n", "\n", "\n", "\n", "\n", "\n", "\n">>}

ParaWords == {<<"b">>, <<"c">>}

\* Texts of at most MaxParas one-word paragraphs, each after a run of blank
\* lines.
RECURSIVE SpacedTexts(_)
SpacedTexts(n) ==
  IF n = 0 THEN {<<>>}
  ELSE LET shorter == SpacedTexts(n - 1)
       IN  shorter \cup {t \o sep \o w : t \in shorter, sep \in Separators, w \in ParaWords}

MaxBlankLen == 3

BlankChars == {" ", "\t", "\r", "\n"}

\* Texts of spaces, tabs and line endings of any kind.
BlankTexts == UNION {[1..n -> BlankChars] : n \in 0..MaxBlankLen}

\* Three paragraphs separated by blank lines.
ExampleText ==
  <<"P", "a", "r", "a", " ", "o", "n", "e", ".", "\n", "\n",
    "P", "a", "r", "a", " ", "t", "w", "o", ".", "\n", "\n",
    "P", "a", "r", "a", " ", "t", "h", "r", "e", "e", ".">>

ExampleChunkOptions ==
  [targetSize |-> 10, minSize |-> 1, maxSize |-> 15, overlap |-> 2]

Texts == ShortTexts \cup SpacedTexts(MaxParas) \cup BlankTexts \cup {ExampleText}

Sizes == {1, 3, 4, 6}

Overlaps == {0, 1, 2}

\* The ChunkOptions invariant: minSize <= targetSize <= maxSize, overlap < minSize.
ValidOptions(o) ==
  /\ o.minSize <= o.targetSize
  /\ o.targetSize <= o.maxSize
  /\ o.overlap < o.minSize

\* Options that break the invariant, one for each way of breaking it.
InvalidOptionSets ==
  {[targetSize |-> 3, minSize |-> 4, maxSize |-> 6, overlap |-> 1],
   [targetSize |-> 4, minSize |-> 1, maxSize |-> 3, overlap |-> 0],
   [targetSize |-> 6, minSize |-> 6, maxSize |-> 4, overlap |-> 1],
   [targetSize |-> 3, minSize |-> 1, maxSize |-> 4, overlap |-> 1]}

\* Valid options with an overlap wider than two one-word paragraphs.
WideOverlapOptions ==
  [targetSize |-> 7, minSize |-> 6, maxSize |-> 8, overlap |-> 5]

ChunkOptionSets ==
  {o \in [targetSize : Sizes, minSize : Sizes, maxSize : Sizes, overlap : Overlaps] :
     ValidOptions(o)} \cup InvalidOptionSets
    \cup {ExampleChunkOptions, WideOverlapOptions}

----------------------------------------------------------------------------
(* chunkText as a state machine                                            *)

TranscriptIdle ==
  /\ segments = <<>>
  /\ groupOptions = NoOptions
  /\ enriched = <<>>
  /\ averageWpm = 0
  /\ segPos = 1
  /\ segCurrentChunk = <<>>
  /\ currentWordCount = 0
  /\ currentDuration = 0
  /\ segChunks = <<>>
  /\ tpc = "idle"

DInit ==
  /\ TranscriptIdle
  /\ IngestIdle
  /\ StoreIdle
  /\ docText \in Texts
  /\ chunkOptions \in ChunkOptionSets
  /\ paragraphs = <<>>
  /\ paraPos = 1
  /\ sentences = <<>>
  /\ sentPos = 1
  /\ sentenceChunk = <<>>
  /\ sentenceStart = 0
  /\ currentChunk = <<>>
  /\ currentStartChar = 0
  /\ chunkIndex = 0
  /\ chunks = <<>>
  /\ dpc = "start"

bufferState == [chunks |-> chunks, chunkIndex |-> chunkIndex,
                currentChunk |-> currentChunk, currentStartChar |-> currentStartChar]

\* Entry: the empty-text return, the normalisation and the paragraph split.
ChunkBegin ==
  /\ dpc = "start"
  /\ IF Trim(docText) = <<>>
     THEN /\ dpc' = "done"
          /\ paragraphs' = <<>>
     ELSE /\ dpc' = "para"
          /\ paragraphs' = splitIntoParagraphs(normalize(docText))
  /\ UNCHANGED <<docText, chunkOptions, paraPos, sentences, sentPos, sentenceChunk,
                 sentenceStart, currentChunk, currentStartChar, chunkIndex, chunks>>
  /\ UNCHANGED <<tvars, ivars, svars>>

\* One iteration of the paragraph loop for a paragraph that fits maxSize.
ParagraphStep ==
  /\ dpc = "para"
  /\ paraPos <= Len(paragraphs)
  /\ ~isOversized(paragraphs[paraPos], chunkOptions)
  /\ LET para == paragraphs[paraPos]
         r == appendParagraph(beforeParagraph(bufferState, para, chunkOptions),
                              para, chunkOptions)
     IN  /\ chunks' = r.chunks
         /\ chunkIndex' = r.chunkIndex
         /\ currentChunk' = r.currentChunk
         /\ currentStartChar' = r.currentStartChar
  /\ paraPos' = paraPos + 1
  /\ UNCHANGED <<docText, chunkOptions, paragraphs, sentences, sentPos,
                 sentenceChunk, sentenceStart, dpc>>
  /\ UNCHANGED <<tvars, ivars, svars>>

\* The start of an iteration for a paragraph longer than maxSize: up to the
\* entry of the sentence loop.
OversizedBegin ==
  /\ dpc = "para"
  /\ paraPos <= Len(paragraphs)
  /\ isOversized(paragraphs[paraPos], chunkOptions)
  /\ LET para == paragraphs[paraPos]
         r == finalizePending(beforeParagraph(bufferState, para, chunkOptions),
                              para, chunkOptions)
     IN  /\ chunks' = r.chunks
         /\ chunkIndex' = r.chunkIndex
         /\ currentChunk' = r.currentChunk
         /\ currentStartChar' = r.currentStartChar
         /\ sentences' = splitIntoSentences(para.text)
         /\ sentenceStart' = para.startChar
  /\ sentenceChunk' = <<>>
  /\ sentPos' = 1
  /\ dpc' = "sent"
  /\ UNCHANGED <<docText, chunkOptions, paragraphs, paraPos>>
  /\ UNCHANGED <<tvars, ivars, svars>>

\* One iteration of the sentence loop.
SentenceStep ==
  /\ dpc = "sent"
  /\ sentPos <= Len(sentences)
  /\ LET r == addSentence([chunks |-> chunks, chunkIndex |-> chunkIndex,
                           sentenceChunk |-> sentenceChunk,
                           sentenceStart |-> sentenceStart],
                          sentences[sentPos], chunkOptions)
     IN  /\ chunks' = r.chunks
         /\ chunkIndex' = r.chunkIndex
         /\ sentenceChunk' = r.sentenceChunk
         /\ sentenceStart' = r.sentenceStart
  /\ sentPos' = sentPos + 1
  /\ UNCHANGED <<docText, chunkOptions, paragraphs, paraPos, sentences,
                 currentChunk, currentStartChar, dpc>>
  /\ UNCHANGED <<tvars, ivars, svars>>

\* The end of the sentence loop: the remaining sentences become the buffer.
OversizedEnd ==
  /\ dpc = "sent"
  /\ sentPos > Len(sentences)
  /\ currentChunk' = sentenceChunk
  /\ currentStartChar' = sentenceStart
  /\ paraPos' = paraPos + 1
  /\ dpc' = "para"
  /\ UNCHANGED <<docText, chunkOptions, paragraphs, sentences, sentPos,
                 sentenceChunk, sentenceStart, chunkIndex, chunks>>
  /\ UNCHANGED <<tvars, ivars, svars>>

\* After the last paragraph: the last chunk and the return.
ChunkEnd ==
  /\ dpc = "para"
  /\ paraPos > Len(paragraphs)
  /\ chunks' = finalizeLast(bufferState, chunkOptions)
  /\ dpc' = "done"
  /\ UNCHANGED <<docText, chunkOptions, paragraphs, paraPos, sentences, sentPos,
                 sentenceChunk, sentenceStart, currentChunk, currentStartChar,
                 chunkIndex>>
  /\ UNCHANGED <<tvars, ivars, svars>>

DNext ==
  \/ ChunkBegin
  \/ ParagraphStep
  \/ OversizedBegin
  \/ SentenceStep
  \/ OversizedEnd
  \/ ChunkEnd

ChunkerSpec == DInit /\ [][DNext]_vars

----------------------------------------------------------------------------
(* processYouTubeUrl: transcript, audio block, grouping, records           *)

\* groupSegmentsByProsody as a function of its arguments.
RECURSIVE groupLoop(_, _, _, _, _, _)
groupLoop(segs, chs, cur, curWords, curDuration, opts) ==
  IF segs = <<>> THEN finalizeChunk(chs, cur, opts)
  ELSE LET segment == Head(segs)
           brk == shouldFinalize(cur, curWords, curDuration, segment, opts)
       IN  groupLoop(Tail(segs),
                     IF brk THEN finalizeChunk(chs, cur, opts) ELSE chs,
                     IF brk THEN <<segment>> ELSE Append(cur, segment),
                     (IF brk THEN 0 ELSE curWords) + wordCount(segment.text),
                     (IF brk THEN 0 ELSE curDuration) + segment.duration,
                     opts)

groupSegmentsByProsody(segs, opts) == groupLoop(segs, <<>>, <<>>, 0, 0, opts)

\* The options processYouTubeUrl groups with.
IngestGroupOptions ==
  [maxChunkDuration |-> 60000, pauseThreshold |-> 1000, targetWordCount |-> 150]

\* chunks.map((chunk, index) => ({...})): the ChunkRecord of a chunk, without
\* its sentiment.
chunkRecord(chunk, index, wpm, acoustic, path) ==
  [text |-> chunk.text,
   sourceType |-> "youtube",
   chunkIndex |-> index,
   prosody |-> [wpm |-> wpm, speed |-> chunk.avgSpeed, emphasis |-> chunk.avgEmphasis,
                pauses |-> chunk.significantPauses,
                startTime |-> chunk.startTime, endTime |-> chunk.endTime],
   acoustic |-> acoustic,
   audioPath |-> path]

\* Transcripts a video can have: none, one cue, or the two example cues.
IngestTranscripts ==
  {seq \in SegmentSeqs : Len(seq) <= 1} \cup {ExampleSegments}

IInit ==
  /\ TranscriptIdle
  /\ DocIdle
  /\ StoreIdle
  /\ url \in {"valid", "invalid"}
  /\ ingestOptions \in [skipAudio : BOOLEAN, keepAudio : BOOLEAN]
  /\ rawSegments \in IngestTranscripts
  /\ transcript = NoTranscript
  /\ audioFile \in BOOLEAN
  /\ audioResult = "none"
  /\ audioPath = "undefined"
  /\ acousticFeatures = "undefined"
  /\ cleanupCalls = 0
  /\ records = <<>>
  /\ returned = "pending"
  /\ ipc = "start"

\* extractVideoId and the early return for an invalid URL.
ExtractVideoId ==
  /\ ipc = "start"
  /\ IF url = "invalid"
     THEN returned' = "null" /\ ipc' = "returned"
     ELSE returned' = returned /\ ipc' = "fetch"
  /\ UNCHANGED <<url, ingestOptions, rawSegments, transcript, audioFile, audioResult,
                 audioPath, acousticFeatures, cleanupCalls, records>>
  /\ UNCHANGED <<tvars, dvars, svars>>

\* fetchYouTubeTranscript: it throws when the request fails or no cue is
\* delivered, and the outer catch returns null.
FetchTranscript ==
  /\ ipc = "fetch"
  /\ \E delivered \in BOOLEAN :
       IF delivered /\ Len(rawSegments) > 0
       THEN /\ transcript' = LET r == calculateProsodyMetrics(rawSegments)
                             IN  [segments |-> r.enriched, averageWpm |-> r.averageWpm]
            /\ returned' = returned
            /\ ipc' = IF ingestOptions.skipAudio THEN "group" ELSE "download"
       ELSE /\ transcript' = transcript
            /\ returned' = "null"
            /\ ipc' = "returned"
  /\ UNCHANGED <<url, ingestOptions, rawSegments, audioFile, audioResult,
                 audioPath, acousticFeatures, cleanupCalls, records>>
  /\ UNCHANGED <<tvars, dvars, svars>>

\* downloadAudio and the audioPath assignment; a rejection is caught by the
\* catch of the audio block.
DownloadAudio ==
  /\ ipc = "download"
  /\ \E ok \in BOOLEAN :
       IF ok
       THEN /\ audioFile' = TRUE
            /\ audioResult' = "ok"
            /\ audioPath' = IF ingestOptions.keepAudio THEN "path" ELSE "undefined"
            /\ ipc' = "opensmile"
       ELSE /\ UNCHANGED <<audioFile, audioResult, audioPath>>
            /\ ipc' = "group"
  /\ UNCHANGED <<url, ingestOptions, rawSegments, transcript, acousticFeatures,
                 cleanupCalls, records, returned>>
  /\ UNCHANGED <<tvars, dvars, svars>>

\* checkOpenSmile resolves to true or false.
CheckOpenSmile ==
  /\ ipc = "opensmile"
  /\ \E hasOpenSmile \in BOOLEAN :
       ipc' = IF hasOpenSmile THEN "extract" ELSE "cleanup"
  /\ UNCHANGED <<url, ingestOptions, rawSegments, transcript, audioFile, audioResult,
                 audioPath, acousticFeatures, cleanupCalls, records, returned>>
  /\ UNCHANGED <<tvars, dvars, svars>>

\* extractAcousticFeatures returns features or null, or rejects (OpenSMILE
\* exits with an error); the rejection is caught by the catch of the audio
\* block, which only logs.
ExtractAcousticFeatures ==
  /\ ipc = "extract"
  /\ \E outcome \in {"features", "null", "error"} :
       /\ acousticFeatures' = IF outcome = "features" THEN "features"
                                                      ELSE acousticFeatures
       /\ ipc' = IF outcome = "error" THEN "group" ELSE "cleanup"
  /\ UNCHANGED <<url, ingestOptions, rawSegments, transcript, audioFile, audioResult,
                 audioPath, cleanupCalls, records, returned>>
  /\ UNCHANGED <<tvars, dvars, svars>>

\* The end of the audio block: cleanupAudio unless the audio is kept.  Its
\* unlink may fail, which cleanupAudio ignores.
CleanupAudio ==
  /\ ipc = "cleanup"
  /\ IF ~ingestOptions.keepAudio
     THEN /\ cleanupCalls' = cleanupCalls + 1
          /\ \E unlinked \in BOOLEAN :
               audioFile' = IF unlinked THEN FALSE ELSE audioFile
     ELSE UNCHANGED <<cleanupCalls, audioFile>>
  /\ ipc' = "group"
  /\ UNCHANGED <<url, ingestOptions, rawSegments, transcript, audioResult,
                 audioPath, acousticFeatures, records, returned>>
  /\ UNCHANGED <<tvars, dvars, svars>>

\* groupSegmentsByProsody, the ChunkRecords and the return.
GroupAndReturn ==
  /\ ipc = "group"
  /\ LET chs == groupSegmentsByProsody(transcript.segments, IngestGroupOptions)
     IN  records' = [c \in 1..Len(chs) |->
                      chunkRecord(chs[c], c - 1, transcript.averageWpm,
                                  acousticFeatures, audioPath)]
  /\ returned' = "records"
  /\ ipc' = "returned"
  /\ UNCHANGED <<url, ingestOptions, rawSegments, transcript, audioFile, audioResult,
                 audioPath, acousticFeatures, cleanupCalls>>
  /\ UNCHANGED <<tvars, dvars, svars>>

INext ==
  \/ ExtractVideoId
  \/ FetchTranscript
  \/ DownloadAudio
  \/ CheckOpenSmile
  \/ ExtractAcousticFeatures
  \/ CleanupAudio
  \/ GroupAndReturn

IngestSpec == IInit /\ [][INext]_vars

----------------------------------------------------------------------------
(* VectorStore: one store object over one LanceDB directory.  st is the    *)
(* record of this.db, this.table and of the collection in the directory    *)
(* (tableExists, rows).  Each method gives the state after the call and    *)
(* the call's outcome.  The LanceDB calls themselves resolve.              *)

NotConnected == "Database not connected. Call connect() first."

NotInitialized == "Table not initialized. Call initTable() first."

MaxRows == 3

RecordIds == {"x", "y"}

\* The record lists handed to addRecords: none, one or two records.
Batches == UNION {[1..n -> RecordIds] : n \in 0..2}

Min(a, b) == IF a <= b THEN a ELSE b

connect(st) ==
  [st |-> [st EXCEPT !.db = "connection"],
   call |-> Call("connect", 0, "none", 0)]

\* initTable whose missing-connection test is left out.
initTable_noConnectionTest(st, reset) ==
  [st |-> [st EXCEPT !.table = "table", !.tableExists = TRUE,
                     !.rows = IF ~st.tableExists \/ reset THEN <<>> ELSE st.rows],
   call |-> Call("initTable", IF reset THEN 1 ELSE 0, "none", 0)]

\* initTable: drop on reset, create empty (the placeholder row is deleted
\* again) when the table is missing or reset, else open the existing table.
initTable(st, reset) ==
  IF st.db = "null"
  THEN [st |-> st, call |-> Call("initTable", IF reset THEN 1 ELSE 0, NotConnected, 0)]
  ELSE [st |-> [st EXCEPT !.table = "table", !.tableExists = TRUE,
                          !.rows = IF ~st.tableExists \/ reset THEN <<>> ELSE st.rows],
        call |-> Call("initTable", IF reset THEN 1 ELSE 0, "none", 0)]

addRecords(st, recs) ==
  IF st.table = "null"
  THEN [st |-> st, call |-> Call("addRecords", Len(recs), NotInitialized, 0)]
  ELSE IF Len(recs) = 0
       THEN [st |-> st, call |-> Call("addRecords", 0, "none", 0)]
       ELSE [st |-> [st EXCEPT !.rows = st.rows \o recs],
             call |-> Call("addRecords", Len(recs), "none", 0)]

\* search resolves to at most limit rows.
search(st, limit) ==
  IF st.table = "null"
  THEN [st |-> st, call |-> Call("search", limit, NotInitialized, 0)]
  ELSE [st |-> st, call |-> Call("search", limit, "none", Min(limit, Len(st.rows)))]

count(st) ==
  IF st.table = "null"
  THEN [st |-> st, call |-> Call("count", 0, NotInitialized, 0)]
  ELSE [st |-> st, call |-> Call("count", 0, "none", Len(st.rows))]

\* close that forgets the connection but keeps the table handle.
close_keepsTable(st) ==
  [st |-> [st EXCEPT !.db = "null"],
   call |-> Call("close", 0, "none", 0)]

close(st) ==
  [st |-> [st EXCEPT !.db = "null", !.table = "null"],
   call |-> Call("close", 0, "none", 0)]

storeState == [db |-> db, table |-> table, tableExists |-> tableExists, rows |-> rows]

\* The variables after a call with result r.
Becomes(r) ==
  /\ db' = r.st.db
  /\ table' = r.st.table
  /\ tableExists' = r.st.tableExists
  /\ rows' = r.st.rows
  /\ lastCall' = r.call

\* A new store over a directory that holds the collection or not.
SInit ==
  /\ TranscriptIdle
  /\ DocIdle
  /\ IngestIdle
  /\ db = "null"
  /\ table = "null"
  /\ tableExists \in BOOLEAN
  /\ rows \in (IF tableExists THEN {<<>>, <<"x">>, <<"y", "x">>} ELSE {<<>>})
  /\ lastCall = Call("new", 0, "none", 0)
  /\ connectedSince = FALSE
  /\ initSince = FALSE

Connect ==
  /\ Becomes(connect(storeState))
  /\ connectedSince' = TRUE
  /\ UNCHANGED initSince
  /\ UNCHANGED <<tvars, dvars, ivars>>

InitTable ==
  /\ \E reset \in BOOLEAN :
       LET r == initTable(storeState, reset)
       IN  /\ Becomes(r)
           /\ initSince' = (initSince \/ r.call.error = "none")
  /\ UNCHANGED connectedSince
  /\ UNCHANGED <<tvars, dvars, ivars>>

AddRecords ==
  /\ \E recs \in Batches :
       /\ Len(rows) + Len(recs) <= MaxRows
       /\ Becomes(addRecords(storeState, recs))
  /\ UNCHANGED <<connectedSince, initSince>>
  /\ UNCHANGED <<tvars, dvars, ivars>>

Search ==
  /\ \E limit \in {1, 5} : Becomes(search(storeState, limit))
  /\ UNCHANGED <<connectedSince, initSince>>
  /\ UNCHANGED <<tvars, dvars, ivars>>

Count ==
  /\ Becomes(count(storeState))
  /\ UNCHANGED <<connectedSince, initSince>>
  /\ UNCHANGED <<tvars, dvars, ivars>>

Close ==
  /\ Becomes(close(storeState))
  /\ connectedSince' = FALSE
  /\ initSince' = FALSE
  /\ UNCHANGED <<tvars, dvars, ivars>>

SNext == Connect \/ InitTable \/ AddRecords \/ Search \/ Count \/ Close

StoreSpec == SInit /\ [][SNext]_vars

----------------------------------------------------------------------------
(* Properties of the transcript pipeline                                   *)

\* The concatenation of a sequence of sequences.
RECURSIVE Concat(_)
Concat(ss) == IF ss = <<>> THEN <<>> ELSE Head(ss) \o Concat(Tail(ss))

\* The chunk (1-based position in segChunks) that holds segment index k.
ChunkHolding(k) ==
  CHOOSE c \in 1..Len(segChunks) :
    \E j \in 1..Len(segChunks[c].segmentIndices) : segChunks[c].segmentIndices[j] = k

\* Segment index k opens a chunk of the output.
StartsChunk(k) ==
  \E c \in 1..Len(segChunks) : segChunks[c].segmentIndices[1] = k

\* Words of the segments with index lo..hi (0-based, inclusive).
WordsBetween(lo, hi) ==
  SumSeq([i \in 1..(hi - lo + 1) |-> wordCount(enriched[lo + i].text)])

\* C1: segment conservation.  The segmentIndices of the returned chunks,
\* concatenated in output order, are exactly 0,1,...,n-1.
C1_SegmentConservation ==
  tpc = "done" =>
    Concat([c \in 1..Len(segChunks) |-> segChunks[c].segmentIndices])
      = [i \in 1..Len(enriched) |-> i - 1]

C1_Witness ==
  /\ tpc = "done"
  /\ Len(enriched) = 3
  /\ Len(segChunks) = 2
  /\ Len(segChunks[1].segmentIndices) = 2

\* C7: duration cap as claimed.  No returned chunk spans more than
\* maxChunkDuration from startTime to endTime, except a chunk of exactly one
\* segment whose own duration exceeds maxChunkDuration.
C7_DurationCap ==
  tpc = "done" =>
    \A c \in 1..Len(segChunks) :
      segChunks[c].endTime - segChunks[c].startTime > groupOptions.maxChunkDuration
        => /\ Len(segChunks[c].segmentIndices) = 1
           /\ enriched[segChunks[c].segmentIndices[1] + 1].duration
                > groupOptions.maxChunkDuration

\* C8 as claimed: whenever segments 0..k-1 (k >= 1) hold at least
\* 0.5*targetWordCount words together and segment k has
\* pauseBefore >= pauseThreshold, segment k opens a chunk.
C8_PauseBreakOverAllEarlierSegments ==
  tpc = "done" =>
    \A k \in 1..(Len(enriched) - 1) :
      (/\ 2 * WordsBetween(0, k - 1) >= groupOptions.targetWordCount
       /\ enriched[k + 1].prosody.pauseBefore >= groupOptions.pauseThreshold)
        => StartsChunk(k)

\* C8 amended: whenever the segments of the chunk that is open when segment k
\* (k >= 1) arrives, that is the segments from the start of the chunk holding
\* segment k-1 up to segment k-1, hold at least 0.5*targetWordCount words and
\* segment k has pauseBefore >= pauseThreshold, segment k opens a chunk.
C8_PauseBreakOverOpenChunk ==
  tpc = "done" =>
    \A k \in 1..(Len(enriched) - 1) :
      LET open == segChunks[ChunkHolding(k - 1)].segmentIndices[1]
      IN  (/\ 2 * WordsBetween(open, k - 1) >= groupOptions.targetWordCount
           /\ enriched[k + 1].prosody.pauseBefore >= groupOptions.pauseThreshold)
            => StartsChunk(k)

\* A pause break taken exactly at the word floor, with neither cap exceeded.
C8_Witness ==
  /\ tpc = "done"
  /\ Len(enriched) >= 2
  /\ 2 * WordsBetween(0, 0) = groupOptions.targetWordCount
  /\ enriched[2].prosody.pauseBefore >= groupOptions.pauseThreshold
  /\ ~wouldExceedDuration(enriched[1].duration, enriched[2], groupOptions)
  /\ ~wouldExceedWords(WordsBetween(0, 0), enriched[2], groupOptions)
  /\ StartsChunk(1)

\* C10 as claimed: every zero-duration segment gets wordsPerMinute = 0 and
\* emphasisScore = 1 (100 hundredths).
C10_ZeroDurationDefaults ==
  tpc # "prosody" =>
    \A i \in 1..Len(enriched) :
      enriched[i].duration = 0 =>
        /\ enriched[i].prosody.wordsPerMinute = 0
        /\ enriched[i].prosody.emphasisScore = 100

\* The quotient r has a divisor other than zero.
Finite(r) == r.d # 0

\* C11: no division by zero.  When calculateProsodyMetrics returns, every
\* quotient it formed has a non-zero divisor, so wordsPerMinute, pauseBefore,
\* relativeSpeed, emphasisScore of every enriched segment and averageWpm are
\* finite; when groupSegmentsByProsody returns, so are avgEmphasis and
\* avgSpeed of every chunk built from them.
C11_NoDivisionByZero ==
  /\ tpc = "called" =>
        /\ averageWpm # NonFinite
        /\ Finite(averageWpmOf(segments))
        /\ \A i \in 1..Len(enriched) :
              /\ Finite(wpmOf(segments[i]))
              /\ Finite(relativeSpeedOf(segments, i))
              /\ Finite(emphasisScoreOf(segments, i))
              /\ enriched[i].prosody.wordsPerMinute # NonFinite
              /\ enriched[i].prosody.pauseBefore # NonFinite
              /\ enriched[i].prosody.relativeSpeed # NonFinite
              /\ enriched[i].prosody.emphasisScore # NonFinite
  /\ tpc = "done" =>
        \A c \in 1..Len(segChunks) :
          /\ Len(segChunks[c].segmentIndices) > 0
          /\ segChunks[c].avgEmphasis # NonFinite
          /\ segChunks[c].avgSpeed # NonFinite

\* Two or more cues, all of duration 0 and all without a word, grouped.
C11_Witness ==
  /\ tpc = "done"
  /\ Len(segments) >= 2
  /\ totalDurationOf(segments) = 0
  /\ totalWordsOf(segments) = 0
  /\ Len(segChunks) >= 1

\* C14: empty input.  calculateProsodyMetrics on no segments returns no
\* enriched segments and averageWpm = 0, and groupSegmentsByProsody on no
\* segments returns no chunks; both calls return.
C14_EmptyTranscript ==
  segments = <<>> =>
    /\ enriched = <<>>
    /\ averageWpm = 0
    /\ segChunks = <<>>
    /\ tpc \in {"prosody", "called", "group", "done"}

C14_Witness ==
  /\ segments = <<>>
  /\ tpc = "done"

\* The enriched segments that make up chunk c.
MembersOf(c) ==
  [j \in 1..Len(segChunks[c].segmentIndices) |->
     enriched[segChunks[c].segmentIndices[j] + 1]]

\* C15: chunk time bounds.  startTime is the offset of the chunk's first
\* member segment, endTime is offset + duration of its last member, and for
\* time-ordered input the startTime values never decrease along the output.
C15_ChunkTimeBounds ==
  tpc = "done" =>
    /\ \A c \in 1..Len(segChunks) :
          LET m == MembersOf(c)
          IN  /\ segChunks[c].startTime = m[1].offset
              /\ segChunks[c].endTime = m[Len(m)].offset + m[Len(m)].duration
    /\ TimeOrdered(segments) =>
          \A c \in 1..(Len(segChunks) - 1) :
            segChunks[c].startTime <= segChunks[c + 1].startTime

\* Two chunks, the first of two segments that start at different times and
\* the last of which has a duration.
C15_Witness ==
  /\ tpc = "done"
  /\ Len(segChunks) = 2
  /\ Len(segChunks[1].segmentIndices) = 2
  /\ enriched[1].offset < enriched[2].offset
  /\ enriched[2].duration > 0
  /\ segChunks[1].startTime < segChunks[2].startTime

\* C16: pauseBefore.  When calculateProsodyMetrics returns, segment 0 has
\* pauseBefore 0 and segment i > 0 has
\* max(0, offset[i] - (offset[i-1] + duration[i-1])); it is never negative.
C16_PauseBefore ==
  tpc = "called" =>
    \A i \in 1..Len(enriched) :
      LET gap == segments[i].offset
                   - (segments[i - 1].offset + segments[i - 1].duration)
      IN  /\ enriched[i].prosody.pauseBefore >= 0
          /\ i = 1 => enriched[i].prosody.pauseBefore = 0
          /\ (i > 1 /\ gap >= 0) => enriched[i].prosody.pauseBefore = gap
          /\ (i > 1 /\ gap < 0) => enriched[i].prosody.pauseBefore = 0

\* An overlapping cue (it starts before the one before it ends) next to a
\* cue that follows a real pause.
C16_Witness ==
  /\ tpc = "called"
  /\ Len(enriched) = 3
  /\ segments[2].offset < segments[1].offset + segments[1].duration
  /\ segments[3].offset > segments[2].offset + segments[2].duration
  /\ enriched[2].prosody.pauseBefore = 0
  /\ enriched[3].prosody.pauseBefore > 0

\* C18: the transcript example.  The two cues 'Hello world' (0, 2000) and
\* 'Goodbye' (5000, 1000), grouped with pauseThreshold 1000 and
\* targetWordCount 1, give exactly two chunks with segmentIndices [0] and
\* [1], and the second cue's pauseBefore is 3000.
C18_TranscriptExample ==
  (segments = ExampleSegments /\ groupOptions = ExampleGroupOptions) =>
    /\ enriched[2].prosody.pauseBefore = 3000
    /\ tpc = "done" =>
          /\ Len(segChunks) = 2
          /\ segChunks[1].segmentIndices = <<0>>
          /\ segChunks[2].segmentIndices = <<1>>

C18_Witness ==
  /\ segments = ExampleSegments
  /\ groupOptions = ExampleGroupOptions
  /\ tpc = "done"
  /\ Len(segChunks) = 2

\* Words and summed durations of a sequence of segments.
WordsOf(segs) == SumSeq([i \in 1..Len(segs) |-> wordCount(segs[i].text)])

DurationOf(segs) == SumSeq([i \in 1..Len(segs) |-> segs[i].duration])

\* Segment s (1-based position k in enriched) arrives with a pause of at
\* least pauseThreshold while the open chunk, the segments from position
\* lo to k - 1, is below the word floor and neither cap is exceeded.
PauseBelowFloor(lo, k) ==
  LET open == SubSeq(enriched, lo, k - 1)
      s == enriched[k]
  IN  /\ s.prosody.pauseBefore >= groupOptions.pauseThreshold
      /\ 2 * WordsOf(open) < groupOptions.targetWordCount
      /\ DurationOf(open) + s.duration <= groupOptions.maxChunkDuration
      /\ 2 * (WordsOf(open) + wordCount(s.text)) <= 3 * groupOptions.targetWordCount

\* C23: no boundary without cause.  For consecutive chunks A, B of the
\* output with s the first segment of B, the summed durations of A plus
\* s.duration exceed maxChunkDuration, or the words of A plus those of s
\* exceed 1.5*targetWordCount, or s has pauseBefore >= pauseThreshold and A
\* has at least 0.5*targetWordCount words.  A pause that arrives while the
\* open chunk is below the word floor, with neither cap exceeded, starts no
\* chunk.
C23_NoBoundaryWithoutCause ==
  tpc = "done" =>
    /\ \A c \in 1..(Len(segChunks) - 1) :
          LET A == MembersOf(c)
              s == MembersOf(c + 1)[1]
          IN  \/ DurationOf(A) + s.duration > groupOptions.maxChunkDuration
              \/ 2 * (WordsOf(A) + wordCount(s.text)) > 3 * groupOptions.targetWordCount
              \/ /\ s.prosody.pauseBefore >= groupOptions.pauseThreshold
                 /\ 2 * WordsOf(A) >= groupOptions.targetWordCount
    /\ \A k \in 1..(Len(enriched) - 1) :
          LET lo == segChunks[ChunkHolding(k - 1)].segmentIndices[1] + 1
          IN  PauseBelowFloor(lo, k + 1) => ~StartsChunk(k)

\* The second cue arrives after a pause while the open chunk has no word,
\* and stays in the first chunk.
C23_Witness ==
  /\ tpc = "done"
  /\ Len(enriched) >= 2
  /\ PauseBelowFloor(1, 2)
  /\ Len(segChunks[1].segmentIndices) >= 2

\* C24: word cap.  Every returned chunk of two or more segments has at most
\* 1.5*targetWordCount words.
C24_WordCap ==
  tpc = "done" =>
    \A c \in 1..Len(segChunks) :
      Len(segChunks[c].segmentIndices) >= 2 =>
        2 * WordsOf(MembersOf(c)) <= 3 * groupOptions.targetWordCount

\* A chunk of three segments that holds exactly 1.5*targetWordCount words.
C24_Witness ==
  /\ tpc = "done"
  /\ Len(segChunks) >= 1
  /\ Len(segChunks[1].segmentIndices) = 3
  /\ 2 * WordsOf(MembersOf(1)) = 3 * groupOptions.targetWordCount

\* C25: summed-duration cap.  Every returned chunk of two or more segments
\* has summed member durations of at most maxChunkDuration, and while the
\* loop runs the running duration and the running word count are those of
\* the segments of the open chunk.
C25_SummedDurationCap ==
  /\ tpc = "done" =>
        \A c \in 1..Len(segChunks) :
          Len(segChunks[c].segmentIndices) >= 2 =>
            DurationOf(MembersOf(c)) <= groupOptions.maxChunkDuration
  /\ tpc = "group" =>
        /\ currentDuration = DurationOf(segCurrentChunk)
        /\ currentWordCount = WordsOf(segCurrentChunk)

\* A second chunk of two segments whose durations sum to maxChunkDuration:
\* the counters were reset when the first chunk was finalized.
C25_Witness ==
  /\ tpc = "done"
  /\ Len(segChunks) = 2
  /\ Len(segChunks[2].segmentIndices) = 2
  /\ DurationOf(MembersOf(1)) > 0
  /\ DurationOf(MembersOf(2)) = groupOptions.maxChunkDuration

\* Number of the segments of segs with pauseBefore >= pauseThreshold.
PausesIn(segs) ==
  Cardinality({i \in 1..Len(segs) :
                 segs[i].prosody.pauseBefore >= groupOptions.pauseThreshold})

\* C26: significantPauses.  Every chunk's significantPauses is the number of
\* its member segments with pauseBefore >= pauseThreshold, the first member
\* included; it lies between 0 and the chunk's segment count, and the sum
\* over the chunks is the number of input segments with such a pause.
C26_SignificantPauses ==
  tpc = "done" =>
    /\ \A c \in 1..Len(segChunks) :
          /\ segChunks[c].significantPauses = PausesIn(MembersOf(c))
          /\ segChunks[c].significantPauses >= 0
          /\ segChunks[c].significantPauses <= Len(segChunks[c].segmentIndices)
    /\ SumSeq([c \in 1..Len(segChunks) |-> segChunks[c].significantPauses])
         = PausesIn(enriched)

\* A chunk opened by a segment that follows a significant pause.
C26_Witness ==
  /\ tpc = "done"
  /\ Len(segChunks) >= 2
  /\ MembersOf(2)[1].prosody.pauseBefore >= groupOptions.pauseThreshold
  /\ segChunks[2].significantPauses >= 1

C28_EnrichmentPreservesInput ==
  /\ [](tpc # "prosody" =>
          /\ Len(enriched) = Len(segments)
          /\ \A i \in 1..Len(segments) :
                /\ enriched[i].segmentIndex = i - 1
                /\ enriched[i].text = segments[i].text
                /\ enriched[i].offset = segments[i].offset
                /\ enriched[i].duration = segments[i].duration)
  /\ [][segments' = segments]_vars

C28_Witness ==
  /\ tpc = "called"
  /\ Len(segments) = 3
  /\ Len(enriched) = 3
  /\ enriched[3].segmentIndex = 2
  /\ segments[1] # segments[2]

----------------------------------------------------------------------------
(* Properties of chunkText                                                 *)

normalized == normalize(docText)

CharsOf(str) == {str[i] : i \in 1..Len(str)}

\* C2 as claimed: coverage.  For a text that is not whitespace-only and valid
\* options, every non-whitespace character position of the normalized text
\* lies in [startChar, endChar) of a returned chunk whose text holds that
\* character.
C2_Coverage ==
  (dpc = "done" /\ ValidOptions(chunkOptions) /\ Trim(docText) # <<>>) =>
    \A q \in 0..(Len(normalized) - 1) :
      ~IsSpace(normalized[q + 1]) =>
        \E c \in 1..Len(chunks) :
          /\ chunks[c].startChar <= q
          /\ q < chunks[c].endChar
          /\ normalized[q + 1] \in CharsOf(chunks[c].text)

\* C3: monotonic indices.  The chunks of one call carry the chunkIndex values
\* 0,1,...,n-1 in output order.
C3_MonotonicIndices ==
  dpc = "done" => \A i \in 1..Len(chunks) : chunks[i].chunkIndex = i - 1

\* Three chunks or more, produced by the sentence split of an oversized
\* paragraph and by the paragraph path.
C3_Witness ==
  /\ dpc = "done"
  /\ Len(chunks) >= 3
  /\ sentences # <<>>
  /\ \E i \in 1..Len(paragraphs) : ~isOversized(paragraphs[i], chunkOptions)

\* C4 as claimed: offsets never regress.  For valid options, startChar and
\* endChar are non-decreasing along the returned chunks.
C4_OffsetsNeverRegress ==
  (dpc = "done" /\ ValidOptions(chunkOptions)) =>
    \A i \in 1..(Len(chunks) - 1) :
      /\ chunks[i].startChar <= chunks[i + 1].startChar
      /\ chunks[i].endChar <= chunks[i + 1].endChar

\* C5 as claimed: size bound.  For valid options every returned chunk but the
\* last has a trimmed text of at least minSize characters.
C5_SizeBound ==
  (dpc = "done" /\ ValidOptions(chunkOptions)) =>
    \A i \in 1..(Len(chunks) - 1) :
      Len(Trim(chunks[i].text)) >= chunkOptions.minSize

\* The buffer that the next step of the loop finalizes and re-seeds with its
\* overlap tail, <<>> when the next step does not do that.
BufferToFinalize ==
  IF dpc = "para" /\ paraPos <= Len(paragraphs)
       /\ exceedsMax(currentChunk, paragraphs[paraPos].text \o <<"\n", "\n">>, chunkOptions)
  THEN currentChunk
  ELSE IF dpc = "sent" /\ sentPos <= Len(sentences)
            /\ exceedsMax(sentenceChunk, sentences[sentPos], chunkOptions)
       THEN sentenceChunk
       ELSE <<>>

\* C6 as claimed: overlap bound.  For valid options (overlap = 0 included) the
\* text carried over from a finalized buffer has at most 2*overlap characters.
C6_OverlapBound ==
  (ValidOptions(chunkOptions) /\ BufferToFinalize # <<>>) =>
    Len(getOverlapText(BufferToFinalize, chunkOptions.overlap))
      <= 2 * chunkOptions.overlap

\* C9 as claimed: with options that break the ChunkOptions invariant the call
\* fails with a configuration error before any text is processed and returns
\* no chunks.  The code has no failing exit: dpc never becomes "failed".
C9_InvalidOptionsRejected ==
  (~ValidOptions(chunkOptions) /\ dpc \notin {"idle", "start"}) =>
    (dpc = "failed" /\ chunks = <<>>)

\* C12 as claimed: offsets stay inside the text.  For valid options every
\* returned chunk has 0 <= startChar <= endChar <= length of the normalized
\* text.
C12_OffsetsInsideText ==
  (dpc = "done" /\ ValidOptions(chunkOptions)) =>
    \A c \in 1..Len(chunks) :
      /\ 0 <= chunks[c].startChar
      /\ chunks[c].startChar <= chunks[c].endChar
      /\ chunks[c].endChar <= Len(normalized)

\* C13: a text that is empty or made of spaces, tabs and line endings only
\* gives no chunk, whatever the options, and the call returns.
C13_BlankTextGivesNoChunks ==
  (\A i \in 1..Len(docText) : docText[i] \in BlankChars) =>
    /\ chunks = <<>>
    /\ dpc \in {"start", "done"}

\* A text with a tab, a carriage return and a newline, chunked under
\* options that break the ChunkOptions invariant.
C13_Witness ==
  /\ dpc = "done"
  /\ docText = <<"\t", "\r", "\n">>
  /\ ~ValidOptions(chunkOptions)
  /\ chunks = <<>>

\* C17: the document example.  The three paragraphs 'Para one.', 'Para two.',
\* 'Para three.' with targetSize 10, minSize 1, maxSize 15, overlap 2 give
\* more than one chunk, no chunk text longer than 15 characters, and
\* chunkIndex values 0,1,2,... in order.
C17_DocumentExample ==
  (dpc = "done" /\ docText = ExampleText /\ chunkOptions = ExampleChunkOptions) =>
    /\ Len(chunks) > 1
    /\ \A c \in 1..Len(chunks) :
          /\ Len(chunks[c].text) <= 15
          /\ chunks[c].chunkIndex = c - 1

C17_Witness ==
  /\ dpc = "done"
  /\ docText = ExampleText
  /\ chunkOptions = ExampleChunkOptions
  /\ Len(chunks) = 3

\* The remainder chunkText holds when the paragraphs are consumed.
finalTrimmed == Trim(currentChunk)

\* C19: the final merge.  At the end of the paragraphs, a remainder of
\* trimmed length > 0 and < minSize with a chunk already emitted adds no
\* chunk: the last chunk's text becomes its text, a blank line and the
\* trimmed remainder, its endChar the end of the remaining buffer, and
\* nothing else changes.  A remainder of trimmed length >= minSize, or one
\* that finds no chunk, is pushed as a new last chunk.
C19_FinalMerge ==
  [][ChunkEnd =>
       LET n == Len(chunks)
           end == currentStartChar + Len(currentChunk)
       IN  /\ (Len(finalTrimmed) > 0 /\ Len(finalTrimmed) < chunkOptions.minSize
                  /\ n > 0) =>
                 /\ Len(chunks') = n
                 /\ \A c \in 1..(n - 1) : chunks'[c] = chunks[c]
                 /\ chunks'[n].text = chunks[n].text \o <<"\n", "\n">> \o finalTrimmed
                 /\ chunks'[n].endChar = end
                 /\ chunks'[n].startChar = chunks[n].startChar
                 /\ chunks'[n].chunkIndex = chunks[n].chunkIndex
           /\ (Len(finalTrimmed) > 0
                  /\ (Len(finalTrimmed) >= chunkOptions.minSize \/ n = 0)) =>
                 chunks' = Append(chunks, [text |-> finalTrimmed,
                                           chunkIndex |-> chunkIndex,
                                           startChar |-> currentStartChar,
                                           endChar |-> end])
     ]_vars

\* The call has returned after merging an undersized remainder into the
\* last chunk: no chunk was pushed for the remainder.
C19_Witness ==
  /\ dpc = "done"
  /\ ValidOptions(chunkOptions)
  /\ Len(finalTrimmed) > 0
  /\ Len(finalTrimmed) < chunkOptions.minSize
  /\ Len(chunks) >= 1
  /\ Len(chunks) = chunkIndex
  /\ chunks[Len(chunks)].endChar = currentStartChar + Len(currentChunk)

\* No sentence of any paragraph is longer than maxSize.
NoLongSentence ==
  \A p \in 1..Len(paragraphs) :
    LET sents == splitIntoSentences(paragraphs[p].text)
    IN  \A k \in 1..Len(sents) : Len(sents[k]) <= chunkOptions.maxSize

\* C20 as claimed: the max-size bound.  For valid options and a text with
\* no sentence longer than maxSize, every returned chunk has trimmed text
\* length <= maxSize.
C20_MaxSizeBound ==
  (dpc = "done" /\ ValidOptions(chunkOptions) /\ NoLongSentence) =>
    \A c \in 1..Len(chunks) : Len(Trim(chunks[c].text)) <= chunkOptions.maxSize

\* The sentence-boundary rule of getOverlapText supplies the overlap of text.
SentenceRuleSupplies(text, overlapSize) ==
  LET m == sentenceMatch(sliceLast(text, overlapSize * 2))
  IN  m # <<>> /\ 2 * Len(m) >= overlapSize

\* C21 as claimed: minimum overlap.  For every finalized buffer longer than
\* overlap (overlap >= 1) whose overlap the sentence-boundary rule does not
\* supply, getOverlapText returns at least overlap characters.
C21_MinimumOverlap ==
  (/\ ValidOptions(chunkOptions)
   /\ chunkOptions.overlap >= 1
   /\ Len(BufferToFinalize) > chunkOptions.overlap
   /\ ~SentenceRuleSupplies(BufferToFinalize, chunkOptions.overlap)) =>
    Len(getOverlapText(BufferToFinalize, chunkOptions.overlap))
      >= chunkOptions.overlap

\* The text s with every LF written as CRLF.
RECURSIVE WithCrLf(_)
WithCrLf(s) ==
  IF s = <<>> THEN <<>>
  ELSE (IF Head(s) = "\n" THEN <<"\r", "\n">> ELSE <<Head(s)>>) \o WithCrLf(Tail(s))

\* The text s with every LF written as a lone CR.
WithCr(s) == [i \in 1..Len(s) |-> IF s[i] = "\n" THEN "\r" ELSE s[i]]

\* C22: line-ending independence.  For a text written with LF line endings
\* and any options, chunkText returns the same chunks (text, chunkIndex,
\* startChar, endChar) for the text with every LF replaced by CRLF and for
\* the text with every LF replaced by a lone CR.
C22_LineEndingIndependence ==
  (dpc = "done" /\ "\r" \notin CharsOf(docText)) =>
    /\ chunkText(WithCrLf(docText), chunkOptions) = chunks
    /\ chunkText(WithCr(docText), chunkOptions) = chunks

\* Two paragraphs separated by a blank line, returned as two chunks.
C22_Witness ==
  /\ dpc = "done"
  /\ "\r" \notin CharsOf(docText)
  /\ Len(paragraphs) = 2
  /\ Len(chunks) = 2
  /\ Len(WithCrLf(docText)) >= Len(docText) + 2

----------------------------------------------------------------------------
(* Properties of processYouTubeUrl                                         *)

\* C29 as claimed: audio cleanup.  When processYouTubeUrl has returned from
\* a run with skipAudio = false and keepAudio = false in which the audio
\* download succeeded, cleanupAudio was called on the downloaded file and
\* the transcript chunk records were returned.
C29_AudioCleanup ==
  (/\ ipc = "returned"
   /\ ~ingestOptions.skipAudio
   /\ ~ingestOptions.keepAudio
   /\ audioResult = "ok") =>
    /\ cleanupCalls >= 1
    /\ returned = "records"

----------------------------------------------------------------------------
(* Properties of VectorStore                                               *)

\* The error of the last call is the one its precondition calls for.
CallOrderErrors ==
  /\ (lastCall.op = "initTable") =>
       (/\ (lastCall.error = NotConnected) <=> ~connectedSince
        /\ lastCall.error \in {NotConnected, "none"})
  /\ (lastCall.op \in {"addRecords", "search", "count"}) =>
       (/\ (lastCall.error = NotInitialized) <=> ~initSince
        /\ lastCall.error \in {NotInitialized, "none"})

\* What one call does to the store and to the rows of the collection.
CallOrderEffects ==
  /\ (lastCall'.error # "none") =>
       UNCHANGED <<db, table, tableExists, rows>>
  /\ (AddRecords /\ lastCall'.arg = 0) => (rows' = rows)
  /\ (InitTable /\ lastCall'.error = "none" /\ lastCall'.arg = 0 /\ tableExists) =>
       (rows' = rows)
  /\ (InitTable /\ lastCall'.error = "none" /\ lastCall'.arg = 1) =>
       (rows' = <<>> /\ tableExists')

====
